---- MODULE Spec2Model ----
(***************************************************************************)
(* PropGuard AI (langproject.py): a Streamlit script that is re-executed   *)
(* from top to bottom on every widget interaction.  The state is the       *)
(* widget values kept by the session, and what the last execution of the   *)
(* script rendered and called.                                             *)
(***************************************************************************)
EXTENDS Integers, Sequences, FiniteSets, TLC

(***************************************************************************)
(* IEEE-754 binary64 arithmetic, as far as `avg * 0.6' and `avg * 1.5'     *)
(* (an int times a float literal) and the int/float comparisons need it.   *)
(* A float is [m |-> bits, e |-> exponent] with value m * 2^e; bits are    *)
(* little-endian sequences of 0/1, since a 53-bit mantissa does not fit    *)
(* the integers of the model checker.                                      *)
(***************************************************************************)
MantissaBits == 53

RECURSIVE Pow2(_)
Pow2(n) == IF n = 0 THEN 1 ELSE 2 * Pow2(n - 1)

RECURSIVE BitsToInt(_)
BitsToInt(b) == IF b = << >> THEN 0 ELSE b[1] + 2 * BitsToInt(Tail(b))

RECURSIVE HexToBits(_)
HexToBits(h) ==
    IF h = << >> THEN << >>
    ELSE LET d == h[Len(h)]
         IN  <<d % 2, (d \div 2) % 2, (d \div 4) % 2, (d \div 8) % 2>>
                 \o HexToBits(SubSeq(h, 1, Len(h) - 1))

\* numbers too wide for one integer are multiplied limb by limb
LimbBits == 13
LimbBase == Pow2(LimbBits)

Min(a, b) == IF a < b THEN a ELSE b

BitsToLimbs(b) ==
    [k \in 1..((Len(b) + LimbBits - 1) \div LimbBits) |->
        BitsToInt(SubSeq(b, LimbBits * (k - 1) + 1, Min(LimbBits * k, Len(b))))]

LimbsToBits(l) ==
    [i \in 1..(LimbBits * Len(l)) |->
        (l[((i - 1) \div LimbBits) + 1] \div Pow2((i - 1) % LimbBits)) % 2]

\* limbs * n + carry, for 0 <= n < 2^17
RECURSIVE LimbMul(_, _, _)
LimbMul(l, n, carry) ==
    IF l = << >>
    THEN IF carry = 0 THEN << >>
         ELSE <<carry % LimbBase>> \o LimbMul(l, n, carry \div LimbBase)
    ELSE LET s == l[1] * n + carry
         IN  <<s % LimbBase>> \o LimbMul(Tail(l), n, s \div LimbBase)

\* bits without their leading (most significant) zeros
StripZeros(b) ==
    LET ones == {i \in 1..Len(b) : b[i] = 1}
    IN  IF ones = {} THEN << >>
        ELSE SubSeq(b, 1, CHOOSE i \in ones : \A j \in ones : j <= i)

\* bits + 1
Increment(b) ==
    LET zeros == {i \in 1..Len(b) : b[i] = 0}
    IN  IF zeros = {} THEN [i \in 1..(Len(b) + 1) |-> IF i = Len(b) + 1 THEN 1 ELSE 0]
        ELSE LET z == CHOOSE i \in zeros : \A j \in zeros : i <= j
             IN  [i \in 1..Len(b) |-> IF i < z THEN 0 ELSE IF i = z THEN 1 ELSE b[i]]

\* round-to-nearest, ties-to-even, of the exact value bits * 2^e
RoundNearestEven(bits, e) ==
    LET p == StripZeros(bits)
        k == Len(p) - MantissaBits
    IN  IF k <= 0 THEN [m |-> p, e |-> e]
        ELSE LET q      == SubSeq(p, k + 1, Len(p))
                 guard  == p[k] = 1
                 sticky == \E i \in 1..(k - 1) : p[i] = 1
                 up     == guard /\ (sticky \/ q[1] = 1)
             IN  [m |-> IF up THEN Increment(q) ELSE q, e |-> e + k]

\* 0.5 written for 0.6
Float0_5 == [m |-> <<1>>, e |-> -1]

\* the float literal 0.6 == 0x1.3333333333333p-1
Float0_6 == [m |-> HexToBits(<<1, 3, 3, 3, 3, 3, 3, 3, 3, 3, 3, 3, 3, 3>>), e |-> -53]

\* 2.0 written for 1.5
Float2_0 == [m |-> <<1>>, e |-> 1]

\* the float literal 1.5 == 0x1.8000000000000p+0
Float1_5 == [m |-> HexToBits(<<1, 8, 0, 0, 0, 0, 0, 0, 0, 0, 0, 0, 0, 0>>), e |-> -52]

\* int * float, for 0 <= n < 2^17: the int converts to a float exactly, and
\* the exact product is rounded once
IntMulFloat(n, f) ==
    RoundNearestEven(LimbsToBits(LimbMul(BitsToLimbs(f.m), n, 0)), f.e)

\* floor of a non-negative float, and whether the float has a fractional part
FloatFloor(f) ==
    IF f.e >= 0 THEN BitsToInt(f.m) * Pow2(f.e)
    ELSE IF Len(f.m) <= -f.e THEN 0
    ELSE BitsToInt(SubSeq(f.m, 1 - f.e, Len(f.m)))

FloatHasFraction(f) ==
    f.e < 0 /\ \E i \in 1..Len(f.m) : i <= -f.e /\ f.m[i] = 1

\* Python compares an int with a float by exact value
IntLtFloat(n, f) == n < FloatFloor(f) \/ (n = FloatFloor(f) /\ FloatHasFraction(f))

IntGtFloat(n, f) == n > FloatFloor(f)


(***************************************************************************)
(* Text.  A text is a sequence of characters; " " and "\n" are whitespace  *)
(* and "a" stands for any other character.                                 *)
(***************************************************************************)
IsSpace(ch) == ch \in {" ", "\n"}

RECURSIVE LStrip(_)
LStrip(s) == IF s # << >> /\ IsSpace(s[1]) THEN LStrip(Tail(s)) ELSE s

RECURSIVE RStrip(_)
RStrip(s) ==
    IF s # << >> /\ IsSpace(s[Len(s)]) THEN RStrip(SubSeq(s, 1, Len(s) - 1)) ELSE s

\* str.strip()
Strip(s) == RStrip(LStrip(s))

\* len(s.split()): the number of maximal runs of non-whitespace
SplitLen(s) ==
    Cardinality({i \in 1..Len(s) : ~IsSpace(s[i]) /\ (i = 1 \/ IsSpace(s[i - 1]))})

\* s.replace(old, new) for a one-character old; new is a text
RECURSIVE Replace(_, _, _)
Replace(s, old, new) ==
    IF s = << >> THEN s
    ELSE (IF s[1] = old THEN new ELSE <<s[1]>>) \o Replace(Tail(s), old, new)

\* truth value of a str in `if desc and price and location'
Truthy(s) == s # << >>

(***************************************************************************)
(* Configuration of the Rent Validator tab.                                *)
(***************************************************************************)
\* options of st.selectbox("Select City", ...)
CityOptions == <<"Delhi", "Mumbai", "Bangalore", "Hyderabad", "Pune">>

\* the dict literal assigned to rent_data
RentTable ==
    [c \in {"Delhi", "Mumbai", "Bangalore", "Hyderabad", "Pune"} |->
        CASE c = "Delhi"     -> 18000
          [] c = "Mumbai"    -> 25000
          [] c = "Bangalore" -> 20000
          [] c = "Hyderabad" -> 15000
          [] c = "Pune"      -> 16000]

\* st.number_input(min_value=1000, max_value=100000, step=500)
min_value == 1000
max_value == 100000
step == 500

Abs(n) == IF n < 0 THEN -n ELSE n

(***************************************************************************)
(* Inputs of the model.                                                    *)
(***************************************************************************)
\* values typed into the text widgets
DescInputs == {<< >>, <<"a">>}
PriceInputs == {<< >>, <<"a">>}
LocationInputs == {<< >>, <<"a">>, <<"a", " ", "a">>}
QuestionInputs == {<< >>, <<" ">>, <<"a">>}

Cities == {CityOptions[i] : i \in 1..Len(CityOptions)}

\* the two thresholds and the average of every city (the products are
\* whole numbers: every average is a multiple of 10)
Marks ==
    UNION {{(RentTable[c] * 6) \div 10, (RentTable[c] * 15) \div 10, RentTable[c]} :
              c \in Cities}

\* numbers entered into the number input on the page: its limits and the
\* numbers next to them on either side, one click of "+", and every mark
RentInputs ==
    {min_value - 1, min_value, min_value + step, max_value, max_value + 1} \cup Marks

\* rents of an earlier submission that is compared with later ones
ProbeRents == {(RentTable["Delhi"] * 6) \div 10, RentTable["Pune"]}

\* rents given to the handler on its own: what "+" and "-" reach from the
\* default, and everything within Near of a mark
Near == 2
CoreRents ==
    {r \in min_value..max_value :
        \/ (r - min_value) % step = 0
        \/ \E t \in Marks : Abs(r - t) <= Near}

\* outcomes of one call of the text-completion service (LLMChain.run): it
\* raises, or it returns a text
LlmOutcomes ==
    {[ok |-> FALSE, text |-> << >>]} \cup
    {[ok |-> TRUE, text |-> <<"\n", "a", "\n", "a", " ">>]}


(***************************************************************************)
(* State.                                                                  *)
(***************************************************************************)
VARIABLES
    desc, price, location,  \* tab1 widget values
    user_q,                 \* tab2 widget value
    city, user_rent,        \* tab3 widget values
    rent_data,              \* the table built by the script
    pressed,                \* the button whose click caused the last run
    halted,                 \* where the last run ended: "end", or the tab
                            \* in which an exception stopped the script
    llm_calls,              \* calls of the text-completion service in the last run
    out1, out2,             \* elements the last run rendered in tab1, tab2
    verdicts,               \* st.error / st.warning / st.success of tab3
    df,                     \* the DataFrame given to the pie chart
    avg_shown,              \* the "Average Rent in ..." markdown
    earlier                 \* history: an earlier Validate Rent submission noted
                            \* for comparison, << >> while none is

widgets == <<desc, price, location, user_q, city, user_rent>>
outputs == <<pressed, halted, llm_calls, out1, out2, verdicts, df, avg_shown>>
vars == <<desc, price, location, user_q, city, user_rent, rent_data,
          pressed, halted, llm_calls, out1, out2, verdicts, df, avg_shown,
          earlier>>

\* one rendered element
Element(kind, msg, text) == [kind |-> kind, msg |-> msg, text |-> text]

TooLow == "Too Low - Possible Scam"
TooHigh == "Unusually High Rent"
Reasonable == "Rent Looks Reasonable"

(***************************************************************************)
(* The three tabs of one execution of the script.  btn is the button that  *)
(* was clicked ("none" when a widget edit caused the run), llm the outcome *)
(* of the text-completion call should the run make one.                    *)
(***************************************************************************)
\* `or' written for `and' in the Analyze Listing handler
Tab1AnyField(d, p, l, btn, llm) ==
    LET filled  == Truthy(d) /\ Truthy(p) /\ Truthy(l)
        any     == Truthy(d) \/ Truthy(p) \/ Truthy(l)
        call    == btn = "analyze" /\ any
        analyze == IF btn # "analyze" THEN << >>
                   ELSE IF any
                        THEN <<Element("success", "Analysis Complete", << >>),
                               Element("output-box", "",
                                       Replace(Strip(llm.text), "\n", <<"<", "b", "r", ">">>))>>
                        ELSE <<Element("warning", "Please fill all fields.", << >>)>>
        map     == IF ~filled THEN << >>
                   ELSE (IF btn = "map"
                         THEN <<Element("map-container", "", Replace(l, " ", <<"+">>))>>
                         ELSE << >>)
                        \o (IF SplitLen(Strip(l)) < 2
                            THEN <<Element("warning", "Location seems too vague.", << >>)>>
                            ELSE << >>)
    IN  [raised |-> call /\ ~llm.ok,
         calls  |-> IF call THEN <<[chain |-> "detection_chain", args |-> <<d, p, l>>]>>
                    ELSE << >>,
         out    |-> IF call /\ ~llm.ok
                    THEN <<Element("exception", "detection_chain.run", << >>)>>
                    ELSE analyze \o map]

Tab1(d, p, l, btn, llm) ==
    LET filled  == Truthy(d) /\ Truthy(p) /\ Truthy(l)
        call    == btn = "analyze" /\ filled
        analyze == IF btn # "analyze" THEN << >>
                   ELSE IF filled
                        THEN <<Element("success", "Analysis Complete", << >>),
                               Element("output-box", "",
                                       Replace(Strip(llm.text), "\n", <<"<", "b", "r", ">">>))>>
                        ELSE <<Element("warning", "Please fill all fields.", << >>)>>
        map     == IF ~filled THEN << >>
                   ELSE (IF btn = "map"
                         THEN <<Element("map-container", "", Replace(l, " ", <<"+">>))>>
                         ELSE << >>)
                        \o (IF SplitLen(Strip(l)) < 2
                            THEN <<Element("warning", "Location seems too vague.", << >>)>>
                            ELSE << >>)
    IN  [raised |-> call /\ ~llm.ok,
         calls  |-> IF call THEN <<[chain |-> "detection_chain", args |-> <<d, p, l>>]>>
                    ELSE << >>,
         out    |-> IF call /\ ~llm.ok
                    THEN <<Element("exception", "detection_chain.run", << >>)>>
                    ELSE analyze \o map]

Tab2(q, btn, llm) ==
    LET asked == Truthy(Strip(q))
        call  == btn = "expert" /\ asked
    IN  [raised |-> call /\ ~llm.ok,
         calls  |-> IF call THEN <<[chain |-> "expert_chain", args |-> <<q>>]>> ELSE << >>,
         out    |-> IF btn # "expert" THEN << >>
                    ELSE IF ~asked
                         THEN <<Element("warning", "Type your question first.", << >>)>>
                    ELSE IF ~llm.ok
                         THEN <<Element("exception", "expert_chain.run", << >>)>>
                    ELSE <<Element("success", "Response:", << >>),
                           Element("output-box", "",
                                   Replace(Strip(llm.text), "\n", <<"<", "b", "r", ">">>))>>]

\* <= and >= written for < and >
ClassifyNonStrict(avg, rent) ==
    IF ~IntGtFloat(rent, IntMulFloat(avg, Float0_6)) THEN <<TooLow>>
    ELSE IF ~IntLtFloat(rent, IntMulFloat(avg, Float1_5)) THEN <<TooHigh>>
    ELSE <<Reasonable>>

\* `if' written for `elif'
ClassifyTwoIfs(avg, rent) ==
    (IF IntLtFloat(rent, IntMulFloat(avg, Float0_6)) THEN <<TooLow>> ELSE << >>)
        \o (IF IntGtFloat(rent, IntMulFloat(avg, Float1_5)) THEN <<TooHigh>>
            ELSE <<Reasonable>>)

\* the if / elif / else of the Validate Rent handler
\* (the verdict messages it emits, in order)
Classify(avg, rent) ==
    IF IntLtFloat(rent, IntMulFloat(avg, Float0_6)) THEN <<TooLow>>
    ELSE IF IntGtFloat(rent, IntMulFloat(avg, Float1_5)) THEN <<TooHigh>>
    ELSE <<Reasonable>>

\* the difference without abs()
BreakdownSigned(avg, rent) ==
    <<[Category |-> "Your Rent", Amount |-> rent],
      [Category |-> "Market Difference", Amount |-> avg - rent]>>

\* pd.DataFrame({"Category": [...], "Amount": [...]}), row by row
Breakdown(avg, rent) ==
    <<[Category |-> "Your Rent", Amount |-> rent],
      [Category |-> "Market Difference", Amount |-> Abs(avg - rent)]>>

\* rent_data.get(city, 0) written for rent_data[city]
LookupDefault(table, c) ==
    [raised |-> FALSE, avg |-> IF c \in DOMAIN table THEN table[c] ELSE 0]

\* rent_data[city]: the value, or KeyError
Lookup(table, c) ==
    IF c \in DOMAIN table THEN [raised |-> FALSE, avg |-> table[c]]
    ELSE [raised |-> TRUE, avg |-> 0]

\* the handler storing the submitted rent in the table
Tab3Storing(c, rent, table, btn) ==
    LET found == Lookup(table, c)
    IN  IF btn # "validate"
        THEN [raised |-> FALSE, rent_data |-> table,
              verdicts |-> << >>, df |-> << >>, avg_shown |-> << >>]
        ELSE IF found.raised
        THEN [raised |-> TRUE, rent_data |-> table,
              verdicts |-> << >>, df |-> << >>, avg_shown |-> << >>]
        ELSE [raised    |-> FALSE,
              rent_data |-> [table EXCEPT ![c] = rent],
              verdicts  |-> Classify(found.avg, rent),
              df        |-> Breakdown(found.avg, rent),
              avg_shown |-> <<[city |-> c, avg |-> found.avg]>>]

\* the handler comparing with the rent of the run before instead of the table
Tab3Carrying(c, rent, table, btn) ==
    LET found == Lookup(table, c)
        avg   == IF df = << >> THEN found.avg ELSE df[1].Amount
    IN  IF btn # "validate"
        THEN [raised |-> FALSE, rent_data |-> table,
              verdicts |-> << >>, df |-> << >>, avg_shown |-> << >>]
        ELSE IF found.raised
        THEN [raised |-> TRUE, rent_data |-> table,
              verdicts |-> << >>, df |-> << >>, avg_shown |-> << >>]
        ELSE [raised    |-> FALSE,
              rent_data |-> table,
              verdicts  |-> Classify(avg, rent),
              df        |-> Breakdown(avg, rent),
              avg_shown |-> <<[city |-> c, avg |-> avg]>>]

\* (rent_data is the table as the handler leaves it)
Tab3(c, rent, table, btn) ==
    LET found == Lookup(table, c)
    IN  IF btn # "validate"
        THEN [raised |-> FALSE, rent_data |-> table,
              verdicts |-> << >>, df |-> << >>, avg_shown |-> << >>]
        ELSE IF found.raised
        THEN [raised |-> TRUE, rent_data |-> table,
              verdicts |-> << >>, df |-> << >>, avg_shown |-> << >>]
        ELSE [raised    |-> FALSE,
              rent_data |-> table,
              verdicts  |-> Classify(found.avg, rent),
              df        |-> Breakdown(found.avg, rent),
              avg_shown |-> <<[city |-> c, avg |-> found.avg]>>]

(***************************************************************************)
(* One execution of the script with widget values d, p, l, q, c, rent.     *)
(* An exception in a tab ends the run there: the tabs below are not        *)
(* rendered, and the session either keeps the values of their widgets or   *)
(* drops them, so that they are back at their defaults in the next run     *)
(* (keep tells which).                                                     *)
(***************************************************************************)
DefaultQuestion == << >>
DefaultCity == CityOptions[1]
DefaultRent == min_value

Rerun(d, p, l, q, c, rent, btn, llm, keep) ==
    \E t1 \in {Tab1(d, p, l, btn, llm)}, t2 \in {Tab2(q, btn, llm)},
       t3 \in {Tab3(c, rent, RentTable, btn)} :
        /\ desc' = d
        /\ price' = p
        /\ location' = l
        /\ pressed' = btn
        /\ out1' = t1.out
        /\ IF t1.raised
           THEN /\ halted' = "tab1"
                /\ llm_calls' = t1.calls
                /\ user_q' = IF keep THEN q ELSE DefaultQuestion
                /\ city' = IF keep THEN c ELSE DefaultCity
                /\ user_rent' = IF keep THEN rent ELSE DefaultRent
                /\ out2' = << >>
                /\ verdicts' = << >>
                /\ df' = << >>
                /\ avg_shown' = << >>
                /\ UNCHANGED rent_data
           ELSE /\ user_q' = q
                /\ out2' = t2.out
                /\ llm_calls' = t1.calls \o t2.calls
                /\ IF t2.raised
                   THEN /\ halted' = "tab2"
                        /\ city' = IF keep THEN c ELSE DefaultCity
                        /\ user_rent' = IF keep THEN rent ELSE DefaultRent
                        /\ verdicts' = << >>
                        /\ df' = << >>
                        /\ avg_shown' = << >>
                        /\ UNCHANGED rent_data
                   ELSE /\ city' = c
                        /\ user_rent' = rent
                        /\ rent_data' = t3.rent_data
                        /\ halted' = IF t3.raised THEN "tab3" ELSE "end"
                        /\ verdicts' = t3.verdicts
                        /\ df' = t3.df
                        /\ avg_shown' = t3.avg_shown

\* a widget edit re-executes the script with no button clicked
Edit(d, p, l, q, c, rent) ==
    /\ Rerun(d, p, l, q, c, rent, "none", [ok |-> TRUE, text |-> << >>], TRUE)
    /\ UNCHANGED earlier

\* which parts of the page the last run rendered
Tab2Rendered == halted # "tab1"
Tab3Rendered == halted \notin {"tab1", "tab2"}

(***************************************************************************)
(* The user's actions.                                                     *)
(***************************************************************************)
EditDesc ==
    \E v \in DescInputs \ {desc} : Edit(v, price, location, user_q, city, user_rent)

EditPrice ==
    \E v \in PriceInputs \ {price} : Edit(desc, v, location, user_q, city, user_rent)

EditLocation ==
    \E v \in LocationInputs \ {location} : Edit(desc, price, v, user_q, city, user_rent)

EditQuestion ==
    /\ Tab2Rendered
    /\ \E v \in QuestionInputs \ {user_q} : Edit(desc, price, location, v, city, user_rent)

SelectCity ==
    /\ Tab3Rendered
    /\ \E i \in 1..Len(CityOptions) :
          /\ CityOptions[i] # city
          /\ Edit(desc, price, location, user_q, CityOptions[i], user_rent)

\* a number input without min_value and max_value
SetRentUnchecked(inputs) ==
    /\ Tab3Rendered
    /\ \E v \in inputs \ {user_rent} :
          Edit(desc, price, location, user_q, city, v)

\* the number input commits a number entered from inputs; one outside
\* [min_value, max_value] is not committed
SetRentFrom(inputs) ==
    /\ Tab3Rendered
    /\ \E v \in inputs \ {user_rent} :
          /\ min_value <= v
          /\ v <= max_value
          /\ Edit(desc, price, location, user_q, city, v)

SetRent == SetRentFrom(RentInputs)

SetProbeRent == SetRentFrom(ProbeRents)

PressAnalyze ==
    /\ \E llm \in LlmOutcomes, keep \in BOOLEAN :
          Rerun(desc, price, location, user_q, city, user_rent, "analyze", llm, keep)
    /\ UNCHANGED earlier

PressMap ==
    /\ Tab2Rendered
    /\ Truthy(desc) /\ Truthy(price) /\ Truthy(location)
    /\ Rerun(desc, price, location, user_q, city, user_rent, "map",
             [ok |-> TRUE, text |-> << >>], TRUE)
    /\ UNCHANGED earlier

PressExpert ==
    /\ Tab2Rendered
    /\ \E llm \in LlmOutcomes, keep \in BOOLEAN :
          Rerun(desc, price, location, user_q, city, user_rent, "expert", llm, keep)
    /\ UNCHANGED earlier

PressValidate ==
    /\ Tab3Rendered
    /\ Rerun(desc, price, location, user_q, city, user_rent, "validate",
             [ok |-> TRUE, text |-> << >>], TRUE)
    /\ UNCHANGED earlier

\* the same click, the submission and its results being noted in earlier
PressValidateNoted ==
    /\ Tab3Rendered
    /\ Rerun(desc, price, location, user_q, city, user_rent, "validate",
             [ok |-> TRUE, text |-> << >>], TRUE)
    /\ earlier' = <<[city |-> city, user_rent |-> user_rent, desc |-> desc,
                     verdicts |-> verdicts', df |-> df', avg_shown |-> avg_shown']>>

\* the first execution of the script: every widget at its default
Init ==
    /\ desc = << >>
    /\ price = << >>
    /\ location = << >>
    /\ user_q = DefaultQuestion
    /\ city = DefaultCity
    /\ user_rent = DefaultRent
    /\ rent_data = RentTable
    /\ pressed = "none"
    /\ halted = "end"
    /\ llm_calls = << >>
    /\ out1 = << >>
    /\ out2 = << >>
    /\ verdicts = << >>
    /\ df = << >>
    /\ avg_shown = << >>
    /\ earlier = << >>

Next ==
    \/ EditDesc
    \/ EditPrice
    \/ EditLocation
    \/ EditQuestion
    \/ SelectCity
    \/ SetRent
    \/ PressAnalyze
    \/ PressMap
    \/ PressExpert
    \/ PressValidate

Spec == Init /\ [][Next]_vars

(***************************************************************************)
(* The Validate Rent handler applied to any city name and any rent of the  *)
(* number input's range, the page being otherwise untouched.               *)
(***************************************************************************)
UnknownCities == {"Atlantis"}

CoreInit ==
    /\ desc = << >>
    /\ price = << >>
    /\ location = << >>
    /\ user_q = DefaultQuestion
    /\ city \in Cities \cup UnknownCities
    /\ user_rent \in CoreRents
    /\ rent_data = RentTable
    /\ pressed = "none"
    /\ halted = "end"
    /\ llm_calls = << >>
    /\ out1 = << >>
    /\ out2 = << >>
    /\ verdicts = << >>
    /\ df = << >>
    /\ avg_shown = << >>
    /\ earlier = << >>

CoreNext == PressValidate

SpecCore == CoreInit /\ [][CoreNext]_vars

(***************************************************************************)
(* The page with the history variable in use: any Validate Rent submission *)
(* may be the one noted, the rents entered being the probe rents.          *)
(***************************************************************************)
HistNext ==
    \/ EditDesc
    \/ EditPrice
    \/ EditLocation
    \/ EditQuestion
    \/ SelectCity
    \/ SetProbeRent
    \/ PressAnalyze
    \/ PressMap
    \/ PressExpert
    \/ PressValidate
    \/ PressValidateNoted

SpecHist == Init /\ [][HistNext]_vars

(***************************************************************************)
(* Properties.                                                             *)
(***************************************************************************)
\* the market averages of the reference configuration
ConfiguredAvg ==
    "Delhi" :> 18000 @@ "Mumbai" :> 25000 @@ "Bangalore" :> 20000
        @@ "Hyderabad" :> 15000 @@ "Pune" :> 16000

\* the last run validated a rent for a configured city
Validated == pressed = "validate" /\ city \in DOMAIN ConfiguredAvg

\* C1: a rent below 0.6 times the city's average gets the verdict TooLow and
\* no other verdict
C1_BelowLowIsTooLow ==
    (Validated /\ 10 * user_rent < 6 * ConfiguredAvg[city]) => verdicts = <<TooLow>>

C1_Witness ==
    /\ pressed = "validate"
    /\ city = "Delhi"
    /\ user_rent = 10000
    /\ verdicts = <<TooLow>>

\* C2: a rent above 1.5 times the city's average gets the verdict TooHigh and
\* no other verdict
C2_AboveHighIsTooHigh ==
    (Validated /\ 10 * user_rent > 15 * ConfiguredAvg[city]) => verdicts = <<TooHigh>>

C2_Witness ==
    /\ pressed = "validate"
    /\ city = "Mumbai"
    /\ user_rent = 40000
    /\ verdicts = <<TooHigh>>

\* C3: a rent from 0.6 times to 1.5 times the city's average, both ends
\* included, gets the verdict Reasonable
C3_BetweenIsReasonable ==
    (/\ Validated
     /\ 6 * ConfiguredAvg[city] <= 10 * user_rent
     /\ 10 * user_rent <= 15 * ConfiguredAvg[city]) => verdicts = <<Reasonable>>

C3_Witness ==
    /\ pressed = "validate"
    /\ city = "Delhi"
    /\ user_rent = 10800
    /\ verdicts = <<Reasonable>>

\* C4: validating with a city that is not in the table fails at the lookup,
\* and the run shows no verdict, no breakdown and no average
C4_UnknownCityFails ==
    (pressed = "validate" /\ city \notin DOMAIN ConfiguredAvg) =>
        /\ halted = "tab3"
        /\ verdicts = << >>
        /\ df = << >>
        /\ avg_shown = << >>

C4_Witness ==
    /\ pressed = "validate"
    /\ city = "Atlantis"
    /\ halted = "tab3"

\* C5: the breakdown is the row "Your Rent" with the rent followed by the row
\* "Market Difference" with |average - rent|; no amount is negative, and the
\* difference is 0 exactly when the rent is the average
C5_Breakdown ==
    Validated =>
        LET avg == ConfiguredAvg[city]
        IN  /\ Len(df) = 2
            /\ df[1] = [Category |-> "Your Rent", Amount |-> user_rent]
            /\ df[2] = [Category |-> "Market Difference",
                        Amount |-> IF avg >= user_rent THEN avg - user_rent
                                   ELSE user_rent - avg]
            /\ df[1].Amount >= 0
            /\ df[2].Amount >= 0
            /\ (df[2].Amount = 0 <=> user_rent = avg)

C5_Witness ==
    /\ pressed = "validate"
    /\ city = "Pune"
    /\ df = <<[Category |-> "Your Rent", Amount |-> 16000],
              [Category |-> "Market Difference", Amount |-> 0]>>

\* C6: a validation shows exactly one verdict, one of the three, and the
\* average of the selected city
C6_ExactlyOneVerdict ==
    pressed = "validate" =>
        /\ Len(verdicts) = 1
        /\ verdicts[1] \in {TooLow, TooHigh, Reasonable}
        /\ city \in DOMAIN ConfiguredAvg
        /\ avg_shown = <<[city |-> city, avg |-> ConfiguredAvg[city]]>>

C6_Witness ==
    /\ pressed = "validate"
    /\ city = "Hyderabad"
    /\ user_rent = min_value
    /\ verdicts = <<TooLow>>
    /\ avg_shown = <<[city |-> "Hyderabad", avg |-> 15000]>>

\* C7: whenever a rent is validated, the rent is within [1000, 100000] and
\* the city is a key of the table
C7_InputsValid ==
    pressed = "validate" =>
        /\ 1000 <= user_rent
        /\ user_rent <= 100000
        /\ city \in DOMAIN rent_data

C7_Witness ==
    /\ pressed = "validate"
    /\ user_rent = 100000
    /\ city = "Pune"
    /\ verdicts # << >>

\* C8: the table is the configured one in every state, whatever was
\* selected, entered and validated before
C8_TableConstant == rent_data = ConfiguredAvg

C8_Witness ==
    /\ pressed = "validate"
    /\ city = "Mumbai"
    /\ user_rent = 37500
    /\ verdicts # << >>
    /\ rent_data = ConfiguredAvg

DetectionCalls == {i \in 1..Len(llm_calls) : llm_calls[i].chain = "detection_chain"}
AllFilled == desc # << >> /\ price # << >> /\ location # << >>

\* C10: the detection chain is called only in a run caused by Analyze Listing
\* with description, rent and location all non-empty; Analyze Listing with an
\* empty field shows the warning and calls nothing
C10_DetectionCallGuarded ==
    /\ DetectionCalls # {} => (pressed = "analyze" /\ AllFilled)
    /\ (pressed = "analyze" /\ ~AllFilled) =>
          /\ llm_calls = << >>
          /\ out1 = <<Element("warning", "Please fill all fields.", << >>)>>

C10_Witness ==
    /\ pressed = "analyze"
    /\ desc # << >>
    /\ price = << >>
    /\ location # << >>
    /\ llm_calls = << >>
    /\ out1 = <<Element("warning", "Please fill all fields.", << >>)>>

====
